---- MODULE Spec2Model ----
(***************************************************************************)
(* The streaming translation pipeline of transulator4_Pro.py:              *)
(* TranslatorState (session controller, queues, live utterance, history)   *)
(* and the four stage workers audio_capture_worker,                        *)
(* streaming_processor_worker, finalization_timer_worker and tts_worker.   *)
(* Every worker thread is a process with a program counter; one action is  *)
(* one step of a thread between two accesses of shared state.  Durations   *)
(* are counted in ticks of 100 ms on the local clock of the thread that    *)
(* measures them (silence_start, last_translation_time are thread locals). *)
(***************************************************************************)
EXTENDS Integers, Sequences, FiniteSets, TLC

\* ------------------------------------------------------------------ bounds
MaxGen == 2          \* sessions started in one run of the model
MaxAudio == 1        \* audio segments waiting in audio_chunk_queue
MaxCaption == 2      \* fragments in the live caption
ShortCaption == 1    \* fragments in the live caption, in the larger specifications
MaxHistory == 2      \* committed history entries
MaxOvershoot == 0    \* ticks a sleep or a blocking call may take beyond its minimum

\* ------------------------------------------------------- program constants
PollTicks == 4       \* time.sleep(0.4) in finalization_timer_worker
QuietTicks == 10     \* "> 1.0" quiet threshold of the timer
ThrottleTicks == 5   \* "> 0.5" translation throttle of the processor
GetTimeoutTicks == 2 \* queue.get(timeout=0.2)

Gens == 1..MaxGen
Stages == {"Capture", "Processor", "Timer", "TTS"}
\* a text is a sequence of one-character strings
Fragments == {<<"a">>}

NoJob == [run |-> 0, text |-> <<>>, tgt |-> "none", seq |-> 0]

VARIABLES
    run_id,             \* state.run_id[0]
    stop_event,         \* state.stop_event.is_set()
    speaking_event,     \* state.speaking_event.is_set()
    is_running,         \* state.is_running
    manual_stop,        \* state._manual_stop
    hardware_initialized, \* state._hardware_initialized
    active_threads,     \* state.active_threads, as <<stage, generation>> pairs
    settings,           \* state.settings (the fields the pipeline reads)
    audio_chunk_queue,  \* state.audio_chunk_queue; a segment carries its producer
    tts_queue,          \* state.tts_queue of (run_id, text, tgt) jobs
    live_caption,       \* state.live_caption, a sequence of fragments
    live_translation,   \* state.live_translation
    history,            \* state.history, most recent first
    worker_status,      \* state.worker_status
    music,              \* what pygame.mixer.music is playing (NoJob: not busy)
    cap,                \* audio_capture_worker threads, by generation
    proc,               \* streaming_processor_worker threads, by generation
    tmr,                \* finalization_timer_worker threads, by generation
    tts,                \* tts_worker threads, by generation
    jobCount,           \* number of synthesis jobs enqueued so far
    dropped             \* seq of the jobs removed from tts_queue unplayed

vars == <<run_id, stop_event, speaking_event, is_running, manual_stop,
          hardware_initialized, active_threads, settings, audio_chunk_queue,
          tts_queue, live_caption, live_translation, history, worker_status,
          music, cap, proc, tmr, tts, jobCount, dropped>>

ctrlVars == <<run_id, stop_event, is_running, manual_stop,
              hardware_initialized, active_threads, settings>>

\* ----------------------------------------------------------------- helpers
Min(a, b) == IF a < b THEN a ELSE b

\* time.time() - t0 after d further ticks, saturated at limit
Elapsed(t, d, limit) == Min(t + d, limit)

QuietCap == QuietTicks + 1
ThrottleCap == ThrottleTicks + 1

\* durations of time.sleep(0.4): at least the interval
SleepTicks == PollTicks..(PollTicks + MaxOvershoot)
\* duration of a queue.get(timeout=0.2) that returns an item
GetTicks == 0..Min(MaxOvershoot, GetTimeoutTicks)
\* duration of the recognize_google network call
NetTicks == 0..MaxOvershoot

\* ------------------------------------------------------------------- texts
Lowers == <<"a", "b", "c", "d", "e", "f", "g", "h", "i", "j", "k", "l", "m",
            "n", "o", "p", "q", "r", "s", "t", "u", "v", "w", "x", "y", "z">>
Uppers == <<"A", "B", "C", "D", "E", "F", "G", "H", "I", "J", "K", "L", "M",
            "N", "O", "P", "Q", "R", "S", "T", "U", "V", "W", "X", "Y", "Z">>

IsLower(c) == \E i \in DOMAIN Lowers : Lowers[i] = c
IsUpper(c) == \E i \in DOMAIN Uppers : Uppers[i] = c
IsCased(c) == IsLower(c) \/ IsUpper(c)
ToLower(c) == IF IsUpper(c) THEN Lowers[CHOOSE i \in DOMAIN Uppers : Uppers[i] = c]
              ELSE c
ToUpper(c) == IF IsLower(c) THEN Uppers[CHOOSE i \in DOMAIN Lowers : Lowers[i] = c]
              ELSE c

\* str.lower
Lower(t) == [i \in DOMAIN t |-> ToLower(t[i])]

\* str.title: a cased character is upper case after an uncased one (or at
\* the start) and lower case after a cased one
Title(t) == [i \in DOMAIN t |->
               IF i > 1 /\ IsCased(t[i - 1]) THEN ToLower(t[i]) ELSE ToUpper(t[i])]

StartsWith(t, k) == Len(k) <= Len(t) /\ SubSeq(t, 1, Len(k)) = k

\* str.replace(k, v), k not empty: every occurrence, left to right
RECURSIVE Replace(_, _, _)
Replace(t, k, v) ==
    IF t = <<>> THEN <<>>
    ELSE IF StartsWith(t, k)
         THEN v \o Replace(SubSeq(t, Len(k) + 1, Len(t)), k, v)
         ELSE <<t[1]>> \o Replace(Tail(t), k, v)

\* lines 22-28, in the order of the dict
CORRECTIONS == <<
    <<<<"c", "h", "a", "t", " ", "g", "p", "t">>,
      <<"C", "h", "a", "t", "G", "P", "T">>>>,
    <<<<"y", "o", "u", " ", "t", "u", "b", "e">>,
      <<"Y", "o", "u", "T", "u", "b", "e">>>>,
    <<<<"m", "i", "n", "e", " ", "c", "r", "a", "f", "t">>,
      <<"M", "i", "n", "e", "c", "r", "a", "f", "t">>>>,
    <<<<"r", "a", "m", " ", "s", "a", "t", "h", "v", "i", "k">>,
      <<"R", "a", "m", " ", "S", "a", "t", "h", "v", "i", "k">>>>,
    <<<<"o", "p", "e", "n", " ", "a", "i">>,
      <<"O", "p", "e", "n", "A", "I">>>> >>

\* lines 62-63: the loop over CORRECTIONS.items(), from entry i on
RECURSIVE ApplyCorrections(_, _)
ApplyCorrections(t, i) ==
    IF i > Len(CORRECTIONS) THEN t
    ELSE ApplyCorrections(
             Replace(t, CORRECTIONS[i][1], Lower(CORRECTIONS[i][2])), i + 1)

\* lines 60-64
fix_words(text) == Title(ApplyCorrections(Lower(text), 1))

\* what the recognizer may return in the specification of the lexical
\* correction
Transcripts == {
    <<"m", "y", " ", "c", "h", "a", "t", " ", "g", "p", "t", " ", "i", "s", " ", "g", "r", "e", "a", "t">>,
    <<"y", "o", "u", " ", "t", "u", "b", "e">>,
    <<"o", "p", "e", "n", " ", "a", "i">>,
    <<"r", "a", "m", " ", "s", "a", "t", "h", "v", "i", "k">>,
    <<"h", "e", "l", "l", "o">> }

\* GoogleTranslator(source, target).translate(text): word by word into tgt
Translate(text, tgt) == [i \in DOMAIN text |-> <<tgt, text[i]>>]

\* source and target language of the active station (lines 350-355, 406-409)
SrcLang(s) == IF s.active_speaker = "A" THEN s.speaker_a_lang ELSE s.speaker_b_lang
TgtLang(s) == IF s.active_speaker = "A" THEN s.speaker_b_lang ELSE s.speaker_a_lang

\* the loop condition without the test of the generation
ContinuesUntilStop(g) == ~stop_event

\* "while not state.stop_event.is_set(): if run_id != state.run_id[0]: break"
Continues(g) == ~stop_event /\ run_id = g

IdleCap == [pc |-> "none"]
IdleProc == [pc |-> "none", seg |-> 0, src |-> "none", tgt |-> "none",
             current |-> <<>>, sinceTr |-> 0, sinceCall |-> 0]
IdleTmr == [pc |-> "none", last_caption |-> <<>>, quiet |-> 0, current |-> <<>>,
            translated |-> <<>>, src |-> "none", tgt |-> "none",
            speaker |-> "none", polls |-> 0]
IdleTts == [pc |-> "none", job |-> NoJob]

Exited(w) == [w EXCEPT !.pc = "done"]

\* an exception that leaves the worker function
RetryRaises(w, at) == Exited(w)

\* an except clause inside the loop: the thread goes on at `at`
Retry(w, at) == [w EXCEPT !.pc = at]

\* -------------------------------------------------------------------- Init
Init ==
    /\ run_id = 0
    /\ stop_event = FALSE
    /\ speaking_event = FALSE
    /\ is_running = FALSE
    /\ manual_stop = FALSE
    /\ hardware_initialized = FALSE
    /\ active_threads = {}
    /\ settings = [active_speaker |-> "A", speaker_a_lang |-> "en",
                   speaker_b_lang |-> "hi", noise_reduction |-> FALSE,
                   disable_mic_debug |-> FALSE, disable_tts_debug |-> FALSE]
    /\ audio_chunk_queue = <<>>
    /\ tts_queue = <<>>
    /\ live_caption = <<>>
    /\ live_translation = <<>>
    /\ history = <<>>
    /\ worker_status = [Capture |-> "Idle", Processor |-> "Idle", TTS |-> "Idle"]
    /\ music = NoJob
    /\ cap = [g \in Gens |-> IdleCap]
    /\ proc = [g \in Gens |-> IdleProc]
    /\ tmr = [g \in Gens |-> IdleTmr]
    /\ tts = [g \in Gens |-> IdleTts]
    /\ jobCount = 0
    /\ dropped = {}

\* ------------------------------------------------------- session controller
\* the threads start_session keeps after the two debug filters (155-169)
SpawnedStages(s) ==
    {st \in Stages : /\ ~(st = "Capture" /\ s.disable_mic_debug)
                     /\ ~(st = "TTS" /\ s.disable_tts_debug)}

Spawn(idle, stage, rid, first, old) ==
    [g \in Gens |-> IF g = rid /\ stage \in SpawnedStages(settings)
                    THEN [idle EXCEPT !.pc = first]
                    ELSE old[g]]

\* start_session without its early return
AlreadyRunningIgnored == FALSE

\* line 144: "if self.is_running: return"
AlreadyRunning == is_running

\* start_session setting the generation instead of incrementing it
NextRunIdFixed(r) == 1

\* line 152: self.run_id[0] += 1
NextRunId(r) == r + 1

\* lines 142-176: TranslatorState.start_session
StartSession ==
    IF AlreadyRunning
    THEN UNCHANGED vars
    ELSE /\ run_id < MaxGen
         /\ is_running' = TRUE
         /\ hardware_initialized' = TRUE
         /\ stop_event' = FALSE
         /\ manual_stop' = FALSE
         /\ run_id' = NextRunId(run_id)
         /\ active_threads' = {<<st, run_id'>> : st \in SpawnedStages(settings)}
         /\ cap' = Spawn(IdleCap, "Capture", run_id', "outer", cap)
         /\ proc' = Spawn(IdleProc, "Processor", run_id', "head", proc)
         /\ tmr' = Spawn(IdleTmr, "Timer", run_id', "head", tmr)
         /\ tts' = Spawn(IdleTts, "TTS", run_id', "head", tts)
         /\ UNCHANGED <<speaking_event, settings, audio_chunk_queue, tts_queue,
                        live_caption, live_translation, history, worker_status,
                        music, jobCount, dropped>>

\* "while not q.empty(): q.get_nowait()" on tts_queue (187-189, 413-415)
DrainTts ==
    /\ tts_queue' = <<>>
    /\ dropped' = dropped \cup {tts_queue[i].seq : i \in DOMAIN tts_queue}

\* lines 178-195: what stop_session does
StopBody ==
    /\ is_running' = FALSE
    /\ manual_stop' = TRUE
    /\ stop_event' = TRUE
    /\ music' = NoJob
    /\ DrainTts
    /\ audio_chunk_queue' = <<>>
    /\ speaking_event' = FALSE
    /\ UNCHANGED <<run_id, hardware_initialized, active_threads,
                   live_caption, live_translation, history, worker_status,
                   cap, proc, tmr, tts, jobCount>>

\* lines 178-195: TranslatorState.stop_session
StopSession == StopBody /\ UNCHANGED settings

\* ----------------------------------------------------------------- main (UI)
\* the languages offered by the two select boxes
Langs == {"en", "hi"}

\* lines 526-532 and 554-560: a new language for station A or B; the locale
\* that is set with it is not part of the model
SetLanguage(station, lang) ==
    /\ IF station = "A"
       THEN /\ lang # settings.speaker_a_lang
            /\ settings' = [settings EXCEPT !.speaker_a_lang = lang]
       ELSE /\ lang # settings.speaker_b_lang
            /\ settings' = [settings EXCEPT !.speaker_b_lang = lang]
    /\ live_caption' = <<>>
    /\ live_translation' = <<>>
    /\ UNCHANGED <<run_id, stop_event, is_running, manual_stop,
                   hardware_initialized, active_threads, speaking_event,
                   audio_chunk_queue, tts_queue, history, worker_status, music,
                   cap, proc, tmr, tts, jobCount, dropped>>

\* lines 545-547 and 573-575 with flush_audio (264-266): the button of the
\* station that is not active
ActivateStation(station) ==
    /\ settings.active_speaker # station
    /\ settings' = [settings EXCEPT !.active_speaker = station]
    /\ StopBody

\* lines 513-516: the "Calibrate Mic" button
CalibrateMic ==
    /\ ~settings.noise_reduction
    /\ settings' = [settings EXCEPT !.noise_reduction = TRUE]
    /\ UNCHANGED <<run_id, stop_event, is_running, manual_stop,
                   hardware_initialized, active_threads, speaking_event,
                   audio_chunk_queue, tts_queue, live_caption, live_translation,
                   history, worker_status, music, cap, proc, tmr, tts, jobCount,
                   dropped>>

\* ------------------------------------------------------ audio_capture_worker
SetStatus(stage, label) == worker_status' = [worker_status EXCEPT ![stage] = label]

\* lines 276-284 and 327-335: outer loop head, device open, exit
CaptureOuter(g) ==
    /\ cap[g].pc = "outer"
    /\ IF Continues(g)
       THEN \/ /\ cap' = [cap EXCEPT ![g].pc = "inner"]
               /\ UNCHANGED worker_status
            \/ /\ SetStatus("Capture", "Off")
               /\ cap' = [cap EXCEPT ![g] = Retry(@, "outer")]
       ELSE /\ SetStatus("Capture", "Idle")
            /\ cap' = [cap EXCEPT ![g] = Exited(@)]
    /\ UNCHANGED <<ctrlVars, speaking_event, audio_chunk_queue, tts_queue,
                   live_caption, live_translation, history, music, proc, tmr,
                   tts, jobCount, dropped>>

\* lines 286-292: inner loop head, settings snapshot, status
CaptureInner(g) ==
    /\ cap[g].pc = "inner"
    /\ IF Continues(g)
       THEN /\ SetStatus("Capture", IF speaking_event THEN "Paused" ELSE "Listening")
            /\ cap' = [cap EXCEPT ![g].pc =
                   IF settings.noise_reduction THEN "calibrate" ELSE "check"]
       ELSE /\ UNCHANGED worker_status
            /\ cap' = [cap EXCEPT ![g].pc = "outer"]
    /\ UNCHANGED <<ctrlVars, speaking_event, audio_chunk_queue, tts_queue,
                   live_caption, live_translation, history, music, proc, tmr,
                   tts, jobCount, dropped>>

\* lines 294-302: calibrate when the snapshot of the settings asked for it;
\* noise_reduction is switched off only when the calibration succeeded
CaptureCalibrate(g) ==
    /\ cap[g].pc = "calibrate"
    /\ SetStatus("Capture", "Calibrating")
    /\ \/ /\ settings' = [settings EXCEPT !.noise_reduction = FALSE]
          /\ cap' = [cap EXCEPT ![g].pc = "check"]
       \/ /\ UNCHANGED settings
          /\ cap' = [cap EXCEPT ![g] = Retry(@, "check")]
    /\ UNCHANGED <<run_id, stop_event, is_running, manual_stop,
                   hardware_initialized, active_threads, speaking_event,
                   audio_chunk_queue, tts_queue, live_caption, live_translation,
                   history, music, proc, tmr, tts, jobCount, dropped>>

\* lines 304-306: half-duplex check before listening
CaptureCheck(g) ==
    /\ cap[g].pc = "check"
    /\ cap' = [cap EXCEPT ![g].pc = IF speaking_event THEN "inner" ELSE "listen"]
    /\ UNCHANGED <<ctrlVars, speaking_event, audio_chunk_queue, tts_queue,
                   live_caption, live_translation, history, worker_status,
                   music, proc, tmr, tts, jobCount, dropped>>

\* line 313: state.audio_chunk_queue.put(audio)
PutAudio(g) == audio_chunk_queue' = Append(audio_chunk_queue, g)

\* lines 308-325: r.listen returns a segment, times out, or fails
CaptureListen(g) ==
    /\ cap[g].pc = "listen"
    /\ \/ /\ Len(audio_chunk_queue) < MaxAudio
          /\ PutAudio(g)
          /\ UNCHANGED worker_status
          /\ cap' = [cap EXCEPT ![g].pc = "inner"]
       \/ /\ UNCHANGED <<audio_chunk_queue, worker_status>>
          /\ cap' = [cap EXCEPT ![g] = Retry(@, "inner")]
       \/ /\ SetStatus("Capture", "Error")
          /\ UNCHANGED audio_chunk_queue
          /\ cap' = [cap EXCEPT ![g] = Retry(@, "inner")]
    /\ UNCHANGED <<ctrlVars, speaking_event, tts_queue, live_caption,
                   live_translation, history, music, proc, tmr, tts, jobCount, dropped>>

\* ------------------------------------------------ streaming_processor_worker
\* lines 343-344: loop head
ProcHead(g) ==
    /\ proc[g].pc = "head"
    /\ proc' = [proc EXCEPT ![g] = IF Continues(g) THEN [@ EXCEPT !.pc = "get"]
                                   ELSE Exited(@)]
    /\ UNCHANGED <<ctrlVars, speaking_event, audio_chunk_queue, tts_queue,
                   live_caption, live_translation, history, worker_status,
                   music, cap, tmr, tts, jobCount, dropped>>

\* lines 346-355 and 390-392: take a segment (or time out), snapshot settings
ProcGet(g) ==
    /\ proc[g].pc = "get"
    /\ IF audio_chunk_queue # <<>>
       THEN \E d \in GetTicks :
            /\ audio_chunk_queue' = Tail(audio_chunk_queue)
            /\ SetStatus("Processor", "Processing")
            /\ proc' = [proc EXCEPT ![g] =
                   [@ EXCEPT !.pc = "recognize",
                             !.seg = Head(audio_chunk_queue),
                             !.src = SrcLang(settings),
                             !.tgt = TgtLang(settings),
                             !.sinceTr = Elapsed(@, d, ThrottleCap),
                             !.sinceCall = Elapsed(@, d, ThrottleTicks)]]
       ELSE /\ UNCHANGED audio_chunk_queue
            /\ SetStatus("Processor", "Idle")
            /\ proc' = [proc EXCEPT ![g] =
                   [@ EXCEPT !.pc = "head",
                             !.sinceTr = Elapsed(@, GetTimeoutTicks, ThrottleCap),
                             !.sinceCall = Elapsed(@, GetTimeoutTicks, ThrottleTicks)]]
    /\ UNCHANGED <<ctrlVars, speaking_event, tts_queue, live_caption,
                   live_translation, history, music, cap, tmr, tts, jobCount, dropped>>

\* line 371: time.time() - last_translation_time > 0.5
ThrottleOpen(sinceTr) == sinceTr > ThrottleTicks

\* lines 357-372 and 386-389: transcribe, append to the caption, throttle
ProcRecognizeFrom(g, texts) ==
    /\ proc[g].pc = "recognize"
    /\ \/ \E f \in texts, d \in NetTicks :
          LET t == Elapsed(proc[g].sinceTr, d, ThrottleCap)
              c == Elapsed(proc[g].sinceCall, d, ThrottleTicks)
          IN /\ Len(live_caption) < MaxCaption
             /\ live_caption' = Append(live_caption, fix_words(f))
             /\ IF ThrottleOpen(t)
                THEN /\ SetStatus("Processor", "Translating")
                     /\ proc' = [proc EXCEPT ![g] =
                            [@ EXCEPT !.pc = "translate", !.seg = 0,
                                      !.current = live_caption',
                                      !.sinceTr = t, !.sinceCall = c]]
                ELSE /\ UNCHANGED worker_status
                     /\ proc' = [proc EXCEPT ![g] =
                            [@ EXCEPT !.pc = "head", !.seg = 0,
                                      !.sinceTr = t, !.sinceCall = c]]
       \/ \E d \in NetTicks, label \in {"Idle", "Silence"} :
          /\ SetStatus("Processor", label)
          /\ proc' = [proc EXCEPT ![g] =
                 Retry([@ EXCEPT !.seg = 0,
                                 !.sinceTr = Elapsed(@, d, ThrottleCap),
                                 !.sinceCall = Elapsed(@, d, ThrottleTicks)],
                       "head")]
          /\ UNCHANGED live_caption
    /\ UNCHANGED <<ctrlVars, speaking_event, audio_chunk_queue, tts_queue,
                   live_translation, history, music, cap, tmr, tts, jobCount, dropped>>

ProcRecognize(g) == ProcRecognizeFrom(g, Fragments)

\* lines 373-385: translate outside the lock, store the result
ProcTranslate(g) ==
    /\ proc[g].pc = "translate"
    /\ IF proc[g].src = proc[g].tgt
       THEN /\ live_translation' = proc[g].current
            /\ proc' = [proc EXCEPT ![g] =
                   [@ EXCEPT !.pc = "head", !.current = <<>>, !.sinceTr = 0]]
       ELSE \/ /\ live_translation' = Translate(proc[g].current, proc[g].tgt)
               /\ proc' = [proc EXCEPT ![g] =
                      [@ EXCEPT !.pc = "head", !.current = <<>>, !.sinceTr = 0,
                                !.sinceCall = 0]]
            \/ /\ UNCHANGED live_translation
               /\ proc' = [proc EXCEPT ![g] =
                      Retry([@ EXCEPT !.current = <<>>, !.sinceCall = 0], "head")]
    /\ UNCHANGED <<ctrlVars, speaking_event, audio_chunk_queue, tts_queue,
                   live_caption, history, worker_status, music, cap, tmr, tts,
                   jobCount, dropped>>

\* ------------------------------------------------- finalization_timer_worker
\* lines 397-398: loop head
TimerHead(g) ==
    /\ tmr[g].pc = "head"
    /\ tmr' = [tmr EXCEPT ![g] = IF Continues(g) THEN [@ EXCEPT !.pc = "poll"]
                                 ELSE Exited(@)]
    /\ UNCHANGED <<ctrlVars, speaking_event, audio_chunk_queue, tts_queue,
                   live_caption, live_translation, history, worker_status,
                   music, cap, proc, tts, jobCount, dropped>>

\* the threshold of the comment on line 405 ("after 2.2s of no new text")
QuietCommented(quiet) == quiet > 22

\* line 405: time.time() - silence_start > 1.0
QuietLongEnough(quiet) == quiet > QuietTicks

\* "current == last_caption" without the test that current is not empty
CaptionSame(current, last_caption) == current = last_caption

\* line 404: current and current == last_caption
CaptionUnchanged(current, last_caption) ==
    current # <<>> /\ current = last_caption

\* lines 399-409 and 418-421: snapshot, quiet test, sleep
TimerPoll(g) ==
    /\ tmr[g].pc = "poll"
    /\ \E d \in SleepTicks :
       IF CaptionUnchanged(live_caption, tmr[g].last_caption)
       THEN IF QuietLongEnough(tmr[g].quiet)
            THEN tmr' = [tmr EXCEPT ![g] =
                     [@ EXCEPT !.pc = "commit",
                               !.current = live_caption,
                               !.translated = live_translation,
                               !.src = SrcLang(settings),
                               !.tgt = TgtLang(settings),
                               !.speaker = settings.active_speaker,
                               !.polls = @ + 1]]
            ELSE tmr' = [tmr EXCEPT ![g] =
                     [@ EXCEPT !.pc = "head",
                               !.quiet = Elapsed(@, d, QuietCap),
                               !.polls = @ + 1]]
       ELSE tmr' = [tmr EXCEPT ![g] =
                [@ EXCEPT !.pc = "head",
                          !.last_caption = live_caption,
                          !.quiet = Elapsed(0, d, QuietCap),
                          !.polls = IF live_caption # <<>> THEN 1 ELSE 0]]
    /\ UNCHANGED <<ctrlVars, speaking_event, audio_chunk_queue, tts_queue,
                   live_caption, live_translation, history, worker_status,
                   music, cap, proc, tts, jobCount, dropped>>

\* add_history with list.append in the place of insert(0, entry)
AddHistoryAtEnd(original, translated, src_lang, tgt_lang, speaker) ==
    /\ history' = Append(history,
                         [original |-> original, translated |-> translated,
                          src_lang |-> src_lang, tgt_lang |-> tgt_lang,
                          speaker |-> speaker])
    /\ live_caption' = <<>>
    /\ live_translation' = <<>>

\* lines 129-140: TranslatorState.add_history
AddHistory(original, translated, src_lang, tgt_lang, speaker) ==
    /\ history' = <<[original |-> original, translated |-> translated,
                     src_lang |-> src_lang, tgt_lang |-> tgt_lang,
                     speaker |-> speaker]>> \o history
    /\ live_caption' = <<>>
    /\ live_translation' = <<>>

\* line 411: commit the utterance
TimerCommit(g) ==
    /\ tmr[g].pc = "commit"
    /\ Len(history) < MaxHistory
    /\ AddHistory(tmr[g].current, tmr[g].translated, tmr[g].src, tmr[g].tgt,
                  tmr[g].speaker)
    /\ tmr' = [tmr EXCEPT ![g].pc = "enqueue"]
    /\ UNCHANGED <<ctrlVars, speaking_event, audio_chunk_queue, tts_queue,
                   worker_status, music, cap, proc, tts, jobCount, dropped>>

\* the put without the drain loop before it
PutJobKeepingOld(job) ==
    /\ tts_queue' = Append(tts_queue, job)
    /\ UNCHANGED dropped

\* lines 412-416: under the lock, drop any pending job, then put the new one
PutJob(job) ==
    /\ tts_queue' = <<job>>
    /\ dropped' = dropped \cup {tts_queue[i].seq : i \in DOMAIN tts_queue}

\* lines 412-421: enqueue the synthesis job, forget the caption, sleep
TimerEnqueue(g) ==
    /\ tmr[g].pc = "enqueue"
    /\ \E d \in SleepTicks :
       /\ PutJob([run |-> g, text |-> tmr[g].translated, tgt |-> tmr[g].tgt,
                  seq |-> jobCount + 1])
       /\ jobCount' = jobCount + 1
       /\ tmr' = [tmr EXCEPT ![g] =
              [@ EXCEPT !.pc = "head", !.last_caption = <<>>,
                        !.current = <<>>, !.translated = <<>>,
                        !.src = "none", !.tgt = "none", !.speaker = "none",
                        !.quiet = Elapsed(@, d, QuietCap), !.polls = 0]]
    /\ UNCHANGED <<ctrlVars, speaking_event, audio_chunk_queue, live_caption,
                   live_translation, history, worker_status, music, cap, proc,
                   tts>>

\* ---------------------------------------------------------------- tts_worker
\* lines 425-426: loop head
TtsHead(g) ==
    /\ tts[g].pc = "head"
    /\ tts' = [tts EXCEPT ![g] = IF Continues(g) THEN [@ EXCEPT !.pc = "get"]
                                 ELSE Exited(@)]
    /\ UNCHANGED <<ctrlVars, speaking_event, audio_chunk_queue, tts_queue,
                   live_caption, live_translation, history, worker_status,
                   music, cap, proc, tmr, jobCount, dropped>>

\* lines 428-430 and 456-458: take a job, or time out into the except clause
TtsGet(g) ==
    /\ tts[g].pc = "get"
    /\ IF tts_queue # <<>>
       THEN /\ tts_queue' = Tail(tts_queue)
            /\ SetStatus("TTS", "Preparing")
            /\ tts' = [tts EXCEPT ![g] = [pc |-> "synth", job |-> Head(tts_queue)]]
            /\ UNCHANGED speaking_event
       ELSE /\ UNCHANGED tts_queue
            /\ speaking_event' = FALSE
            /\ SetStatus("TTS", "Idle")
            /\ tts' = [tts EXCEPT ![g].pc = "head"]
    /\ UNCHANGED <<ctrlVars, audio_chunk_queue, live_caption, live_translation,
                   history, music, cap, proc, tmr, jobCount, dropped>>

\* lines 432-450 and 456-458: synthesize, then start playback, or fail
TtsSynth(g) ==
    /\ tts[g].pc = "synth"
    /\ \/ /\ speaking_event' = TRUE
          /\ SetStatus("TTS", "Speaking")
          /\ music' = tts[g].job
          /\ tts' = [tts EXCEPT ![g].pc = "playing"]
       \/ /\ speaking_event' = FALSE
          /\ SetStatus("TTS", "Idle")
          /\ UNCHANGED music
          /\ tts' = [tts EXCEPT ![g] = Retry([@ EXCEPT !.job = NoJob], "head")]
    /\ UNCHANGED <<ctrlVars, audio_chunk_queue, tts_queue, live_caption,
                   live_translation, history, cap, proc, tmr, jobCount, dropped>>

\* the busy loop left without line 454
PlaybackOverFlagKept == UNCHANGED speaking_event

\* line 454: state.speaking_event.clear()
PlaybackOver == speaking_event' = FALSE

\* lines 451-455: wait until playback is over or the stop signal fires
TtsPlaying(g) ==
    /\ tts[g].pc = "playing"
    /\ music = NoJob \/ stop_event
    /\ PlaybackOver
    /\ SetStatus("TTS", "Idle")
    /\ tts' = [tts EXCEPT ![g] = [pc |-> "head", job |-> NoJob]]
    /\ UNCHANGED <<ctrlVars, audio_chunk_queue, tts_queue, live_caption,
                   live_translation, history, music, cap, proc, tmr, jobCount, dropped>>

\* pygame.mixer.music reaches the end of the loaded audio
MusicEnds ==
    /\ music # NoJob
    /\ music' = NoJob
    /\ UNCHANGED <<ctrlVars, speaking_event, audio_chunk_queue, tts_queue,
                   live_caption, live_translation, history, worker_status,
                   cap, proc, tmr, tts, jobCount, dropped>>

\* -------------------------------------------------------------------- Next
CaptureStep(g) ==
    \/ CaptureOuter(g)
    \/ CaptureInner(g)
    \/ CaptureCheck(g)
    \/ CaptureListen(g)

ProcStep(g) ==
    \/ ProcHead(g)
    \/ ProcGet(g)
    \/ ProcRecognize(g)
    \/ ProcTranslate(g)

TimerStep(g) ==
    \/ TimerHead(g)
    \/ TimerPoll(g)
    \/ TimerCommit(g)
    \/ TimerEnqueue(g)

TtsStep(g) ==
    \/ TtsHead(g)
    \/ TtsGet(g)
    \/ TtsSynth(g)
    \/ TtsPlaying(g)

UiStep ==
    \/ \E station \in {"A", "B"}, lang \in Langs : SetLanguage(station, lang)
    \/ \E station \in {"A", "B"} : ActivateStation(station)
    \/ CalibrateMic

Next ==
    \/ StartSession
    \/ StopSession
    \/ UiStep
    \/ MusicEnds
    \/ \E g \in Gens : \/ CaptureStep(g) \/ CaptureCalibrate(g)
                       \/ ProcStep(g) \/ TimerStep(g) \/ TtsStep(g)

Spec == Init /\ [][Next]_vars

\* The behaviours of Spec in which only the capture and processor threads
\* are scheduled (the timer and synthesis threads are spawned and starve)
\* and the caption stays within ShortCaption fragments.
ShortProcStep(g) == ProcStep(g) /\ Len(live_caption') <= ShortCaption

NextIngest ==
    \/ StartSession
    \/ StopSession
    \/ \E g \in Gens : CaptureStep(g) \/ ShortProcStep(g)

SpecIngest == Init /\ [][NextIngest]_vars

\* The behaviours of Spec within one uninterrupted session, the caption
\* staying within ShortCaption fragments.
NextSession ==
    \/ run_id = 0 /\ StartSession
    \/ MusicEnds
    \/ \E g \in Gens :
          CaptureStep(g) \/ ShortProcStep(g) \/ TimerStep(g) \/ TtsStep(g)

SpecSession == Init /\ [][NextSession]_vars

\* The behaviours of Spec in which the capture, processor and timer threads
\* of the first session and the synthesis thread of the second are scheduled.
NextStale ==
    \/ StartSession
    \/ StopSession
    \/ CaptureStep(1) \/ ShortProcStep(1) \/ TimerStep(1)
    \/ TtsHead(2) \/ TtsGet(2)

SpecStale == Init /\ [][NextStale]_vars

\* The behaviours of Spec in which, within one uninterrupted session, only
\* the capture and processor threads are scheduled.
NextThrottle ==
    \/ run_id = 0 /\ StartSession
    \/ CaptureStep(1) \/ ProcStep(1)

SpecThrottle == Init /\ [][NextThrottle]_vars

\* The behaviours of Spec of one session in which the languages of the two
\* stations are changed and only the capture and processor threads run.
NextSameLang ==
    \/ run_id = 0 /\ StartSession
    \/ \E station \in {"A", "B"}, lang \in Langs : SetLanguage(station, lang)
    \/ CaptureStep(1)
    \/ ProcStep(1)

SpecSameLang == Init /\ [][NextSameLang]_vars

\* The behaviours of one session in which the recognizer returns the texts
\* of Transcripts; the capture, processor and timer threads run, up to the
\* first commit.
NextFixWords ==
    \/ run_id = 0 /\ StartSession
    \/ CaptureStep(1)
    \/ ProcHead(1)
    \/ ProcGet(1)
    \/ ProcRecognizeFrom(1, Transcripts) /\ Len(live_caption') <= ShortCaption
    \/ ProcTranslate(1)
    \/ TimerHead(1)
    \/ TimerPoll(1)
    \/ TimerCommit(1) /\ history = <<>>
    \/ TimerEnqueue(1)

SpecFixWords == Init /\ [][NextFixWords]_vars

\* The behaviours of one session and its stop, up to the first commit, the
\* synthesis thread being scheduled again and again and every playback
\* coming to its end.
NextSpeaking ==
    \/ run_id = 0 /\ StartSession
    \/ StopSession
    \/ MusicEnds
    \/ CaptureStep(1)
    \/ ShortProcStep(1)
    \/ TimerHead(1)
    \/ TimerPoll(1)
    \/ TimerCommit(1) /\ history = <<>>
    \/ TimerEnqueue(1)
    \/ TtsStep(1)

SpecSpeaking ==
    Init /\ [][NextSpeaking]_vars /\ WF_vars(TtsStep(1)) /\ WF_vars(MusicEnds)

\* The behaviours of one session and its stop, up to the first commit, with
\* the "Calibrate Mic" button pressed before the session starts.
NextFailures ==
    \/ run_id = 0 /\ StartSession
    \/ StopSession
    \/ run_id = 0 /\ CalibrateMic
    \/ MusicEnds
    \/ CaptureStep(1)
    \/ CaptureCalibrate(1)
    \/ ShortProcStep(1)
    \/ TimerHead(1)
    \/ TimerPoll(1)
    \/ TimerCommit(1) /\ history = <<>>
    \/ TimerEnqueue(1)
    \/ TtsStep(1)

SpecFailures == Init /\ [][NextFailures]_vars

\* The speaker says one segment: r.listen returns audio only while nothing
\* is waiting, being transcribed, in the caption or in the history.
HearOnce ==
    Len(audio_chunk_queue') > Len(audio_chunk_queue) =>
        /\ audio_chunk_queue = <<>>
        /\ live_caption = <<>>
        /\ history = <<>>
        /\ \A g \in Gens : proc[g].seg = 0

CaptureOnceStep(g) == CaptureStep(g) /\ HearOnce

\* The behaviours of Spec with the first session stopped at any time and a
\* second one started, one segment said, as far as the threads of the first
\* session are concerned (those of the second are spawned and not
\* scheduled); every thread of the first session is scheduled again and
\* again, every blocking call returns and every playback comes to its end.
NextRestart ==
    \/ ~is_running /\ StartSession
    \/ run_id = 1 /\ is_running /\ StopSession
    \/ MusicEnds
    \/ CaptureOnceStep(1)
    \/ ProcStep(1)
    \/ TimerStep(1)
    \/ TtsStep(1)

SpecRestart ==
    /\ Init /\ [][NextRestart]_vars
    /\ WF_vars(MusicEnds)
    /\ WF_vars(CaptureOnceStep(1))
    /\ WF_vars(ProcStep(1))
    /\ WF_vars(TimerStep(1))
    /\ WF_vars(TtsStep(1))

\* ------------------------------------------------------------------ claims
Alive(w) == w.pc \notin {"none", "done"}

\* thread g of a stage takes a step that writes the live caption, the live
\* translation, the history, audio_chunk_queue or tts_queue
SharedWrite(g) ==
    \/ /\ proc[g].pc = "recognize" /\ proc'[g].pc # "recognize"
       /\ live_caption' # live_caption
    \/ proc[g].pc = "translate" /\ proc'[g].pc = "head" /\ proc'[g].sinceTr = 0
    \/ tmr[g].pc = "commit" /\ tmr'[g].pc = "enqueue"
    \/ tmr[g].pc = "enqueue" /\ tmr'[g].pc = "head"
    \/ /\ cap[g].pc = "listen" /\ cap'[g].pc = "inner"
       /\ Len(audio_chunk_queue') > Len(audio_chunk_queue)

\* C1: once start_session has raised the generation, no worker spawned with
\* an earlier generation writes the live caption, the live translation, the
\* history, the audio-segment queue or the synthesis-job queue.
C1_NoStaleWrite == [][\A g \in Gens : SharedWrite(g) => g = run_id]_vars

\* C2: no stale data leaks into a later session: both queues are empty when
\* start_session spawns its workers, and no worker dequeues a segment or a
\* job that a worker of an earlier session enqueued.
C2_NoLeak ==
    [][/\ run_id' # run_id => audio_chunk_queue = <<>> /\ tts_queue = <<>>
       /\ \A g \in Gens :
            /\ proc[g].pc = "get" /\ proc'[g].pc = "recognize"
                  => proc'[g].seg >= g
            /\ tts[g].pc = "get" /\ tts'[g].pc = "synth"
                  => tts'[g].job.run >= g]_vars

\* C3: while a session is running no step raises the generation, clears the
\* stop signal, changes the active workers or spawns a worker, and a call of
\* start_session changes nothing at all (both queues included).
C3_StartNoOp ==
    [][is_running =>
         /\ run_id' = run_id
         /\ active_threads' = active_threads
         /\ stop_event' = stop_event \/ ~is_running'
         /\ \A g \in Gens :
              /\ cap[g].pc = "none" => cap'[g].pc = "none"
              /\ proc[g].pc = "none" => proc'[g].pc = "none"
              /\ tmr[g].pc = "none" => tmr'[g].pc = "none"
              /\ tts[g].pc = "none" => tts'[g].pc = "none"
         /\ StartSession => UNCHANGED vars]_vars

\* a running session with a segment queued and its processor at work, where
\* a further start_session returns at once
C3_Witness ==
    /\ is_running
    /\ run_id = 2
    /\ audio_chunk_queue # <<>>
    /\ proc[2].pc = "recognize"
    /\ Alive(cap[1])

\* C4: the generation never decreases; a start_session that is not a no-op
\* raises it by exactly one, clears the stop signal and spawns every enabled
\* stage worker with the new value, so at most one worker per stage carries
\* the current generation.
C4_Generation ==
    /\ [](/\ \A t \in active_threads : t[2] = run_id
          /\ \A st \in Stages :
                Cardinality({t \in active_threads : t[1] = st}) <= 1
          /\ \A g \in Gens : g > run_id =>
                /\ cap[g].pc = "none" /\ proc[g].pc = "none"
                /\ tmr[g].pc = "none" /\ tts[g].pc = "none")
    /\ [][/\ run_id' >= run_id
          /\ run_id' # run_id => ~is_running /\ is_running'
          /\ ~is_running /\ is_running' =>
                /\ run_id' = run_id + 1
                /\ ~stop_event'
                /\ active_threads' =
                      {<<st, run_id'>> : st \in SpawnedStages(settings)}
                /\ cap'[run_id'].pc = "outer"
                /\ proc'[run_id'] = [IdleProc EXCEPT !.pc = "head"]
                /\ tmr'[run_id'] = [IdleTmr EXCEPT !.pc = "head"]
                /\ tts'[run_id'] = [IdleTts EXCEPT !.pc = "head"]]_vars

\* the second session is running while a thread of the first is still alive
C4_Witness ==
    /\ run_id = 2
    /\ is_running
    /\ ~stop_event
    /\ Alive(proc[1])
    /\ Alive(proc[2])

\* C5: every call of stop_session (a second one in succession included)
\* leaves both queues empty, every worker status idle, the stop signal set
\* and the session not running.
C5_StopLeavesIdle ==
    [][StopSession =>
         /\ audio_chunk_queue' = <<>>
         /\ tts_queue' = <<>>
         /\ stop_event'
         /\ ~is_running'
         /\ \A st \in DOMAIN worker_status : worker_status'[st] = "Idle"]_vars

\* ceil(quietThreshold / pollInterval) + 1
NeededPolls == (QuietTicks + PollTicks - 1) \div PollTicks + 1

C7_NoPutWhileSpeaking ==
    [][Len(audio_chunk_queue') > Len(audio_chunk_queue) => ~speaking_event]_vars

\* C8: the synthesis queue never holds more than one job, a job dropped from
\* it is never synthesized or played, and the job a synthesis worker takes
\* is the one of the latest finalize.
C8_SingleSlot ==
    /\ [](/\ Len(tts_queue) <= 1
          /\ music.seq \notin dropped
          /\ \A g \in Gens : tts[g].job.seq \notin dropped)
    /\ [][\A g \in Gens :
            tts[g].pc = "get" /\ tts'[g].pc = "synth" =>
              tts'[g].job.seq = jobCount]_vars

\* two finalizes before the first job was taken: the first was dropped and
\* the second is playing
C8_Witness ==
    /\ 1 \in dropped
    /\ music.seq = 2
    /\ tts[1].pc = "playing"

\* C9: a synthesis worker goes on to synthesize only a job whose generation
\* is the current one.
C9_StaleJobDiscarded ==
    [][\A g \in Gens :
         tts[g].pc = "get" /\ tts'[g].pc = "synth" =>
           tts'[g].job.run = run_id]_vars

\* C10: a call of the translator comes at least 500 ms after the previous
\* one.
C10_Throttle ==
    [][\A g \in Gens :
         proc[g].pc = "translate" /\ proc'[g].pc = "head"
           /\ proc[g].src # proc[g].tgt =>
             proc[g].sinceCall >= ThrottleTicks]_vars

\* C11: when the source language of the segment equals its target
\* language, the processor leaves the live translation equal to the live
\* caption once it has handled a transcribed segment, and it does not call
\* the translator.
C11_SameLanguage ==
    [][\A g \in Gens :
         proc[g].pc \in {"recognize", "translate"} /\ proc[g].src = proc[g].tgt =>
           /\ proc[g].pc = "recognize" /\ proc'[g].pc = "head"
                 /\ live_caption' # live_caption =>
                   live_translation' = live_caption'
           /\ proc[g].pc = "translate" /\ proc'[g].pc = "head" =>
                   /\ live_translation' = live_caption'
                   /\ proc'[g].sinceCall = proc[g].sinceCall]_vars

\* the lower-cased text t from position i on, each known mis-transcription
\* replaced by its canonical form and the rest in title case
RECURSIVE CanonicalFrom(_, _)
CanonicalFrom(t, i) ==
    IF i > Len(t) THEN <<>>
    ELSE LET rest == SubSeq(t, i, Len(t))
             hits == {n \in DOMAIN CORRECTIONS : StartsWith(rest, CORRECTIONS[n][1])}
         IN IF hits # {}
            THEN LET n == CHOOSE n \in hits : TRUE
                 IN CORRECTIONS[n][2] \o CanonicalFrom(t, i + Len(CORRECTIONS[n][1]))
            ELSE <<IF i > 1 /\ IsCased(t[i - 1]) THEN t[i] ELSE ToUpper(t[i])>>
                     \o CanonicalFrom(t, i + 1)

Canonical(text) == CanonicalFrom(Lower(text), 1)

\* C12: every fragment of the live caption and of a committed history
\* entry is a transcription with its known mis-transcriptions replaced by
\* their canonical forms ("chat gpt" by "ChatGPT") and the rest in title
\* case.
C12_LexicalCorrection ==
    LET Expected == {Canonical(t) : t \in Transcripts}
    IN /\ \A j \in DOMAIN live_caption : live_caption[j] \in Expected
       /\ \A i \in DOMAIN history :
             \A j \in DOMAIN history[i].original :
                history[i].original[j] \in Expected

\* C13: the speaking flag is set only while a synthesis worker is playing,
\* the worker that leaves its playback (completed, stopped or failed) leaves
\* the flag clear, and a set flag is eventually cleared.
C13_SpeakingCleared ==
    /\ [](speaking_event => \E g \in Gens : tts[g].pc = "playing")
    /\ [][\A g \in Gens :
            tts[g].pc \in {"synth", "playing"} /\ tts'[g].pc = "head" =>
              ~speaking_event']_vars
    /\ (speaking_event ~> ~speaking_event)

\* the worker has set the flag and started playback after stop_session
\* cleared the flag: the worker has yet to clear it
C13_Witness ==
    /\ stop_event
    /\ speaking_event
    /\ tts[1].pc = "playing"
    /\ music # NoJob

\* C14: a worker ends only at the head of its loop, and only when the stop
\* signal is set or the generation is no longer its own: no failure of
\* device open, listen, calibration, transcription, translation, synthesis
\* or playback ends it.
C14_FailureIsolated ==
    [][\A g \in Gens :
         /\ cap[g].pc # "done" /\ cap'[g].pc = "done" =>
               cap[g].pc = "outer" /\ ~Continues(g)
         /\ proc[g].pc # "done" /\ proc'[g].pc = "done" =>
               proc[g].pc = "head" /\ ~Continues(g)
         /\ tmr[g].pc # "done" /\ tmr'[g].pc = "done" =>
               tmr[g].pc = "head" /\ ~Continues(g)
         /\ tts[g].pc # "done" /\ tts'[g].pc = "done" =>
               tts[g].pc = "head" /\ ~Continues(g)]_vars

\* listen and transcription have failed, a calibration has failed (the
\* request is still pending), a job was taken, and every worker is at work
C14_Witness ==
    /\ ~stop_event
    /\ worker_status.Capture = "Error"
    /\ worker_status.Processor = "Silence"
    /\ settings.noise_reduction
    /\ cap[1].pc = "inner"
    /\ proc[1].pc = "head"
    /\ tmr[1].pc = "head"
    /\ tts[1].pc = "head"
    /\ jobCount = 1
    /\ tts_queue = <<>>
    /\ music = NoJob

\* the worker threads of generation g have all ended (or were never spawned)
Terminated(g) ==
    /\ ~Alive(cap[g]) /\ ~Alive(proc[g])
    /\ ~Alive(tmr[g]) /\ ~Alive(tts[g])

\* C15: once the stop signal is set or the generation has moved on, the
\* workers of the first session all end, also when start_session has
\* cleared the stop signal before they noticed it.
C15_WorkersTerminate ==
    (stop_event \/ run_id > 1) ~> Terminated(1)

\* the first session was stopped and the second started while all four
\* workers of the first were alive, and they have all ended since
C15_Witness ==
    /\ run_id = 2
    /\ ~stop_event
    /\ cap[1].pc = "done" /\ proc[1].pc = "done"
    /\ tmr[1].pc = "done" /\ tts[1].pc = "done"
    /\ Alive(cap[2]) /\ Alive(tts[2])
    /\ history # <<>>

\* ------------------------------------------------------------ C16
\* lines 284-326: the capture thread is inside `with sr.Microphone(...)`
HoldsMicrophone(g) == cap[g].pc \in {"inner", "calibrate", "check", "listen"}

\* lines 446-455: the synthesis thread has loaded and started pygame's music
\* and has not left the busy loop
IsPlaying(g) == tts[g].pc = "playing"

\* C16: each hardware device is used by at most one worker at a time: at
\* most one capture thread holds the microphone open and at most one
\* synthesis thread is playing audio, also when a session is stopped and the
\* next one started while threads of the previous one are alive.
C16_ExclusiveDevices ==
    /\ \A g, h \in Gens : HoldsMicrophone(g) /\ HoldsMicrophone(h) => g = h
    /\ \A g, h \in Gens : IsPlaying(g) /\ IsPlaying(h) => g = h

\* ------------------------------------------------------------ C17
\* C17: the history only grows: a step leaves it as it is or puts exactly
\* one new entry in front of the entries already there, which keep their
\* content and order; a commit of the finalization timer puts the utterance
\* it read in front.
C17_HistoryOnlyGrows ==
    [][/\ \/ history' = history
          \/ /\ Len(history') = Len(history) + 1
             /\ Tail(history') = history
       /\ \A g \in Gens :
             tmr[g].pc = "commit" /\ tmr'[g].pc = "enqueue" =>
                /\ Len(history') = Len(history) + 1
                /\ Head(history').original = tmr[g].current
                /\ Tail(history') = history]_vars

\* a second, different entry stands in front of the first one, after a stop
\* and a restart
C17_Witness ==
    /\ Len(history) = 2
    /\ history[1] # history[2]
    /\ run_id = 2

\* ------------------------------------------------------------ C18
\* the fields the shared lock is there for
Guarded ==
    {"settings", "live_caption", "live_translation", "history", "worker_status"}

Acquire == <<"acquire", "lock">>
Release == <<"release", "lock">>
Read(field) == <<"read", field>>
Write(field) == <<"write", field>>
Call(what) == <<"call", what>>

\* What a step of a worker does to the lock, to the shared fields and to its
\* collaborators, in the order of the source lines, all branches of the step
\* one after the other.
LockTrace(stage, pc) ==
    CASE stage = "Capture" /\ pc = "outer" ->
           <<Read("settings"), Call("open microphone"),           \* 279, 284
             Acquire, Write("worker_status"), Release,            \* 329-331
             Write("worker_status")>>                             \* 335
      [] stage = "Capture" /\ pc = "inner" ->
           <<Acquire, Read("settings"), Write("worker_status"),   \* 289-292
             Release>>
      [] stage = "Capture" /\ pc = "calibrate" ->
           <<Write("worker_status"), Call("adjust_for_ambient_noise"), \* 297, 298
             Acquire, Write("settings"), Release>>                \* 299
      [] stage = "Capture" /\ pc = "listen" ->
           <<Call("listen"),                                      \* 311
             Acquire, Write("worker_status"), Release>>           \* 321-323
      [] stage = "Processor" /\ pc = "get" ->
           <<Write("worker_status"),                              \* 347
             Acquire, Read("settings"), Release,                  \* 348
             Write("worker_status")>>                             \* 391
      [] stage = "Processor" /\ pc = "recognize" ->
           <<Call("recognize_google"), Write("worker_status"),    \* 359, 361
             Acquire, Read("live_caption"), Write("live_caption"), \* 366-368
             Release,
             Write("worker_status"),                              \* 372
             Write("worker_status")>>                             \* 388
      [] stage = "Processor" /\ pc = "translate" ->
           <<Call("translate"),                                   \* 378
             Acquire, Write("live_translation"), Release>>        \* 380-381
      [] stage = "Timer" /\ pc = "poll" ->
           <<Acquire, Read("live_caption"), Read("live_translation"), \* 399-402
             Read("settings"), Release>>
      [] stage = "Timer" /\ pc = "commit" ->
           <<Acquire, Write("history"), Write("live_caption"),    \* 130-140
             Write("live_translation"), Release>>
      [] stage = "Timer" /\ pc = "enqueue" ->
           <<Acquire, Release>>                                   \* 412-416
      [] stage = "TTS" /\ pc = "get" ->
           <<Write("worker_status"),                              \* 429
             Acquire, Read("settings"), Release,                  \* 430
             Write("worker_status")>>                             \* 458
      [] stage = "TTS" /\ pc = "synth" ->
           <<Call("edge_tts"), Write("worker_status"),            \* 444, 448
             Call("play"), Write("worker_status")>>               \* 449-450, 458
      [] stage = "TTS" /\ pc = "playing" ->
           <<Write("worker_status")>>                             \* 455
      [] OTHER -> <<>>

\* how many times the reentrant lock is held before event i of a trace
RECURSIVE Held(_, _)
Held(trace, i) ==
    IF i <= 1 THEN 0
    ELSE Held(trace, i - 1) + (CASE trace[i - 1] = Acquire -> 1
                                 [] trace[i - 1] = Release -> -1
                                 [] OTHER -> 0)

\* the guarded fields a trace reads or writes without the lock
BareAccesses(trace) ==
    {trace[i][2] : i \in {j \in DOMAIN trace :
                             /\ trace[j][1] \in {"read", "write"}
                             /\ trace[j][2] \in Guarded
                             /\ Held(trace, j) = 0}}

\* the collaborators a trace calls with the lock held
LockedCalls(trace) ==
    {trace[i][2] : i \in {j \in DOMAIN trace :
                             trace[j][1] = "call" /\ Held(trace, j) > 0}}

\* what the lock discipline asks of a step
Disciplined(stage, pc) ==
    /\ BareAccesses(LockTrace(stage, pc)) = {}
    /\ LockedCalls(LockTrace(stage, pc)) = {}

\* C18: every read and write of the settings, the caption and translation,
\* the history and the worker-status map by a worker is made with the lock
\* held, and no worker holds the lock across a transcription, translation or
\* synthesis call or across a listen: every step a worker takes is
\* disciplined.
C18_LockDiscipline ==
    [][\A g \in Gens :
          /\ cap'[g] # cap[g] => Disciplined("Capture", cap[g].pc)
          /\ proc'[g] # proc[g] => Disciplined("Processor", proc[g].pc)
          /\ tmr'[g] # tmr[g] => Disciplined("Timer", tmr[g].pc)
          /\ tts'[g] # tts[g] => Disciplined("TTS", tts[g].pc)]_vars

\* ------------------------------------------------------- station changes
\* The behaviours of Spec in which the user changes the language of station
\* A at any time and activates station B at any time around one session, one
\* segment is said at a time, and the capture, processor and timer threads
\* of that session are scheduled.
NextStation ==
    \/ run_id = 0 /\ StartSession
    \/ \E lang \in Langs : SetLanguage("A", lang)
    \/ ActivateStation("B")
    \/ CaptureOnceStep(1) \/ ProcStep(1) \/ TimerStep(1)

SpecStation == Init /\ [][NextStation]_vars

\* ------------------------------------------------------------ C19
\* C19: an empty caption never finalizes: every history entry has a
\* non-empty original text, the timer never holds an empty utterance to
\* commit, and a poll that finds the live caption empty commits nothing and
\* enqueues no synthesis job.
C19_EmptyNeverFinalizes ==
    /\ [](\A i \in DOMAIN history : history[i].original # <<>>)
    /\ [](\A g \in Gens : tmr[g].pc \in {"commit", "enqueue"} =>
                             tmr[g].current # <<>>)
    /\ [][\A g \in Gens :
             tmr[g].pc = "poll" /\ tmr'[g] # tmr[g] /\ live_caption = <<>> =>
                /\ tmr'[g].pc = "head"
                /\ history' = history
                /\ tts_queue' = tts_queue]_vars

\* the timer has found the caption empty twice in a row, after an utterance
\* was committed
C19_Witness ==
    /\ history # <<>>
    /\ live_caption = <<>>
    /\ tmr[1].pc = "head"
    /\ tmr[1].last_caption = <<>>
    /\ tmr[1].polls = 0
    /\ tmr[1].quiet <= PollTicks + MaxOvershoot

\* ------------------------------------------------------------ C20
\* the selection a caption is tagged with: the active station and the
\* languages of the two stations
Selection(s) == <<s.active_speaker, s.speaker_a_lang, s.speaker_b_lang>>

\* C20: the live caption and the live translation are reset to empty
\* whenever the active station is switched or a station's language is
\* changed, so that the utterance the timer picks up for the history carries
\* the source and target languages its text was transcribed with.
C20_ResetOnSelectionChange ==
    [][/\ Selection(settings') # Selection(settings) =>
             live_caption' = <<>> /\ live_translation' = <<>>
       /\ \A g \in Gens :
             tmr[g].pc = "poll" /\ tmr'[g].pc = "commit" =>
                \E h \in Gens : /\ proc[h].src = tmr'[g].src
                                /\ proc[h].tgt = tmr'[g].tgt]_vars

\* ------------------------------------------------------------ C21
\* C21: whenever synthesized audio is playing the speaking flag is set; in
\* particular no synthesis thread starts or continues playback with the
\* flag clear after stop_session has returned.
C21_PlayingImpliesSpeaking == music # NoJob => speaking_event

\* ---------------------------------------------------------- finalization
\* The behaviours of Spec within one uninterrupted session in which the
\* capture, processor and timer threads are scheduled (the synthesis thread
\* is spawned and starves) and the caption may grow to MaxCaption fragments.
NextFinalize ==
    \/ run_id = 0 /\ StartSession
    \/ CaptureStep(1) \/ ProcStep(1) \/ TimerStep(1)

SpecFinalize == Init /\ [][NextFinalize]_vars

\* ------------------------------------------------------------ C22
\* s is the beginning of t
IsPrefix(s, t) ==
    /\ Len(s) <= Len(t)
    /\ \A i \in DOMAIN s : s[i] = t[i]

\* C22: no transcribed fragment is lost at finalization: the caption that a
\* commit of the timer clears is contained in the original text of the
\* entry the commit puts into the history, also when the processor appended
\* to it after the timer had read it.
C22_NoFragmentLost ==
    [][\A g \in Gens :
          tmr[g].pc = "commit" /\ tmr'[g].pc = "enqueue" =>
             IsPrefix(live_caption, Head(history').original)]_vars

\* ------------------------------------------------------------ C23
\* lines 375-378: what the processor makes of a caption, the text itself
\* when source and target language are the same
TranslationOf(text, src_lang, tgt_lang) ==
    IF src_lang = tgt_lang THEN text ELSE Translate(text, tgt_lang)

\* C23: every history entry carries the translation of its own original
\* text, never an empty one and never that of a shorter or earlier caption,
\* and so does the synthesis job enqueued with it.
C23_OwnTranslation ==
    /\ \A i \in DOMAIN history :
          /\ history[i].translated # <<>>
          /\ history[i].translated =
                TranslationOf(history[i].original, history[i].src_lang,
                              history[i].tgt_lang)
    /\ \A j \in DOMAIN tts_queue :
          /\ tts_queue[j].text # <<>>
          /\ \E i \in DOMAIN history :
                /\ tts_queue[j].tgt = history[i].tgt_lang
                /\ tts_queue[j].text =
                      TranslationOf(history[i].original, history[i].src_lang,
                                    history[i].tgt_lang)

\* ------------------------------------------------------------ C24
\* C24: in every reachable state an empty live caption goes with an empty
\* live translation: no translation lands after the utterance was reset.
C24_NoOrphanTranslation == live_caption = <<>> => live_translation = <<>>


====
